---- MODULE Spec2Model ----
(***************************************************************************)
(* FSx for Lustre data repository task scheduler.                          *)
(*                                                                         *)
(* Three variants of the tool are modelled, each from its own source file: *)
(*   py      src/src/py/fsx-drt.py     cli_handler, export, import_data    *)
(*   lambda  src/src/lambda/lambda.py  handler, create_data_repository_task*)
(*   legacy  src/src/fsx-drt.py        cli_handler, export, import_data    *)
(*                                                                         *)
(* A Python str is a sequence of one-character strings, so that            *)
(* startswith, rstrip, concatenation and shlex.split are computed and not  *)
(* assumed; a word that is only ever compared whole (a task type) is a     *)
(* one-element sequence.  A dict (event, os.environ) is a function whose   *)
(* DOMAIN is the set of keys present.  The FSx service is the environment: *)
(* each call to it either raises a ClientError or returns, and what it     *)
(* returns is chosen when the call is made.                                *)
(***************************************************************************)
EXTENDS Integers, Sequences, FiniteSets, TLC

VARIABLES
    entry,        \* the entry point this invocation came in by
    op,           \* the operation function running: export, import or create
    pc,           \* position of the invocation in the code
    args,         \* argparse namespace of a CLI invocation
    event,        \* the event dict handed to export / import_data
    environ,      \* os.environ
    dra_details,  \* result of the last association resolution
    response,     \* last answer of describe_data_repository_associations
    task_params,  \* the request handed to create_data_repository_task
    calls,        \* the service calls made so far, in order
    outcome,      \* how the invocation ended
    create_answer,\* last answer of create_data_repository_task
    earlier       \* the invocations before this one: how many, and their calls

vars == <<entry, op, pc, args, event, environ, dra_details, response,
          task_params, calls, outcome, create_answer, earlier>>

\* what the steps before the first service call leave alone
noService == <<dra_details, response, task_params, calls, create_answer, earlier>>

----------------------------------------------------------------------------
(* Bounds *)

\* longest association list the service returns
MaxAssocs == 2

\* invocations with the same arguments, one after the other
MaxInvocations == 2

----------------------------------------------------------------------------
(* Python str operations *)

\* str.startswith(prefix)
StartsWith(s, prefix) ==
    /\ Len(prefix) <= Len(s)
    /\ SubSeq(s, 1, Len(prefix)) = prefix

RECURSIVE RStrip(_, _)
\* str.rstrip(ch): drop every trailing ch
RStrip(s, ch) ==
    IF s # <<>> /\ s[Len(s)] = ch
    THEN RStrip(SubSeq(s, 1, Len(s) - 1), ch)
    ELSE s

RECURSIVE SplitFrom(_, _, _)
\* scan s from the left; cur is the word being read, out the words read
SplitFrom(s, cur, out) ==
    IF s = <<>>
    THEN IF cur = <<>> THEN out ELSE Append(out, cur)
    ELSE IF Head(s) = " "
         THEN SplitFrom(Tail(s), <<>>,
                        IF cur = <<>> THEN out ELSE Append(out, cur))
         ELSE SplitFrom(Tail(s), Append(cur, Head(s)), out)

\* shlex.split(s) on text without quotes or escapes: the whitespace-separated words
ShlexSplit(s) == SplitFrom(s, <<>>, <<>>)

\* args.action.upper(), as a str
Upper(a) ==
    IF a = "import" THEN <<"IMPORT">> ELSE IF a = "export" THEN <<"EXPORT">> ELSE <<a>>

----------------------------------------------------------------------------
(* Text the program and its callers use *)

FsPrefix == <<"f", "s", "-">>
S3Scheme == <<"s", "3", ":", "/", "/">>

\* filesystem ids a caller may pass: well formed, two malformed, empty
FsIds == { FsPrefix \o <<"1">>, <<"f", "s", "1">>, <<"x">>, <<>> }

\* completion report suffixes: with a leading separator, without, empty
Suffixes == { <<"/", "r">>, <<"r">>, <<>> }

PathD  == <<"/", "d">>
PathE  == <<"/", "e">>
PathS3 == S3Scheme \o <<"o", "/">>

\* --paths / FSX_PATHS values: a filesystem path, a storage path, two words, empty
PathArgs == { PathD, PathS3, PathD \o <<" ">> \o PathE, <<>> }

\* paths lists of a programmatic event
PathLists == { <<>>, <<PathD>>, <<PathS3>>, <<PathD, PathE>> }

FAILED_FILES_ONLY == <<"FAILED_FILES_ONLY">>
ReportScopes == { FAILED_FILES_ONLY, <<"ALL_FILES">> }

EXPORT_TO_REPOSITORY == <<"EXPORT_TO_REPOSITORY">>
IMPORT_METADATA_FROM_REPOSITORY == <<"IMPORT_METADATA_FROM_REPOSITORY">>

\* TASK_TYPE values of the lambda's environment: the two kinds, another, empty
TaskTypes == { EXPORT_TO_REPOSITORY, IMPORT_METADATA_FROM_REPOSITORY,
               <<"RELEASE_DATA_FROM_FILESYSTEM">>, <<>> }

Actions == { "import", "export" }

\* the hard-coded report destination of py import_data
SnowyTrail ==
    S3Scheme \o <<"s", "n", "o", "w", "y", "t", "r", "a", "i", "l", "/",
                  "f", "s", "x", "l", "-", "d", "r", "t", "-",
                  "t", "e", "s", "t", "i", "n", "g">>

----------------------------------------------------------------------------
(* The service *)

Lifecycles == { "AVAILABLE", "CREATING", "FAILED" }

\* (DataRepositoryPath, FileSystemPath) of the associations the service holds
RepoPaths ==
    { <<S3Scheme \o <<"b", "/", "p", "/">>, PathD>>,
      <<S3Scheme \o <<"c">>, <<"/">>>> }

Associations ==
    { [Lifecycle |-> l, DataRepositoryPath |-> p[1], FileSystemPath |-> p[2]] :
        l \in Lifecycles, p \in RepoPaths }

AssociationLists == UNION { [1..n -> Associations] : n \in 0..MaxAssocs }

\* messages of the ClientError the service raises
ServiceMessages == { "AccessDenied", "ServiceLimitExceeded" }

ClientError(m) == [type |-> "ClientError", msg |-> m, names |-> <<>>]
ValueError(m, names) == [type |-> "ValueError", msg |-> m, names |-> names]
IndexError == [type |-> "IndexError", msg |-> "list index out of range", names |-> <<>>]

\* the service's answer to a created task; CreationTime is a datetime
TaskResponse ==
    [TaskId |-> "task-1", Lifecycle |-> "PENDING", CreationTime |-> [datetime |-> 1]]

None == [kind |-> "none"]

----------------------------------------------------------------------------
(* Association resolution: the loop of get_dra_details *)

RECURSIVE FirstAvailableFrom(_, _)
\* index of the first AVAILABLE association at or after i, 0 if there is none
FirstAvailableFrom(assocs, i) ==
    IF i > Len(assocs) THEN 0
    ELSE IF assocs[i].Lifecycle = "AVAILABLE" THEN i
    ELSE FirstAvailableFrom(assocs, i + 1)

\* get_dra_details with the loop taking the first association, whatever its state
get_dra_details_any(assocs) ==
    IF assocs = <<>>
    THEN [ok |-> FALSE,
          err |-> ValueError("No Data Repository Associations found", <<>>)]
    ELSE IF \A i \in DOMAIN assocs : assocs[i].Lifecycle # "AVAILABLE"
    THEN [ok |-> FALSE,
          err |-> ValueError("No AVAILABLE Data Repository Associations found", <<>>)]
    ELSE [ok |-> TRUE,
          s3_path |-> assocs[1].DataRepositoryPath,
          fsx_path |-> assocs[1].FileSystemPath]

\* get_dra_details without the test for an empty answer
get_dra_details_nocheck(assocs) ==
    LET i == FirstAvailableFrom(assocs, 1) IN
    IF i = 0
    THEN [ok |-> FALSE,
          err |-> ValueError("No AVAILABLE Data Repository Associations found", <<>>)]
    ELSE [ok |-> TRUE,
          s3_path |-> assocs[i].DataRepositoryPath,
          fsx_path |-> assocs[i].FileSystemPath]

\* get_dra_details of py and lambda, after the service answered with assocs
get_dra_details(assocs) ==
    IF assocs = <<>>
    THEN [ok |-> FALSE,
          err |-> ValueError("No Data Repository Associations found", <<>>)]
    ELSE LET i == FirstAvailableFrom(assocs, 1) IN
         IF i = 0
         THEN [ok |-> FALSE,
               err |-> ValueError("No AVAILABLE Data Repository Associations found", <<>>)]
         ELSE [ok |-> TRUE,
               s3_path |-> assocs[i].DataRepositoryPath,
               fsx_path |-> assocs[i].FileSystemPath]

----------------------------------------------------------------------------
(* Dicts *)

EmptyDict == <<>>

\* the dicts that hold key k with a value of S, or do not hold it
Opt(k, S) == { EmptyDict } \cup { k :> v : v \in S }

\* [p for p in required if p not in d]
NotIn(required, d) == SelectSeq(required, LAMBDA p : p \notin DOMAIN d)

\* [var for var in required_vars if not os.environ.get(var)]
Falsy(required, d) ==
    SelectSeq(required, LAMBDA p : p \notin DOMAIN d \/ d[p] = <<>>)

----------------------------------------------------------------------------
(* Service calls and endings *)

DescribeCall(fsid) == [op |-> "describe", fsid |-> fsid]
CreateCall(params) == [op |-> "create", params |-> params]

Returned(v) == [kind |-> "returned", value |-> v]

\* An exception that is caught and replaced by one with a message of its own
Raised_wrapped(e) ==
    IF entry = "py_cli"
    THEN [kind |-> "exit", code |-> 1, err |-> [e EXCEPT !.msg = "Error occurred"],
          logged |-> IF e.type = "ValueError" THEN "Validation error"
                     ELSE "Unexpected error in cli_handler"]
    ELSE [kind |-> "raised", err |-> [e EXCEPT !.msg = "Error occurred"]]

\* An exception leaving the operation function.  py cli_handler catches it,
\* logs it and exits 1; everywhere else it reaches the caller.
Raised(e) ==
    IF entry = "py_cli"
    THEN [kind |-> "exit", code |-> 1, err |-> e,
          logged |-> IF e.type = "ValueError" THEN "Validation error"
                     ELSE "Unexpected error in cli_handler"]
    ELSE [kind |-> "raised", err |-> e]

Init ==
    /\ entry = "none"
    /\ op = "none"
    /\ pc = "start"
    /\ args = EmptyDict
    /\ event = EmptyDict
    /\ environ = EmptyDict
    /\ dra_details = None
    /\ response = None
    /\ task_params = None
    /\ calls = <<>>
    /\ outcome = None
    /\ create_answer = None
    /\ earlier = [invocations |-> 0, created |-> 0, succeeded |-> 0]

\* get_completion_report_path, after the service answered with assocs
get_completion_report_path(assocs, completionReportPath) ==
    IF assocs = <<>>
    THEN [ok |-> FALSE,
          err |-> ValueError("No Data Repository Associations found", <<>>)]
    ELSE LET i == FirstAvailableFrom(assocs, 1) IN
         IF i = 0
         THEN [ok |-> FALSE,
               err |-> ValueError("No AVAILABLE Data Repository Associations found", <<>>)]
         ELSE [ok |-> TRUE,
               full_path |-> RStrip(assocs[i].DataRepositoryPath, "/")
                               \o completionReportPath]

IsLegacy == entry \in {"legacy_cli", "legacy_export", "legacy_import"}

\* the resolver of the variant running, applied to the service's answer a
Resolver(a) ==
    IF IsLegacy
    THEN get_completion_report_path(a, environ.completionreportpath)
    ELSE get_dra_details(a)

\* get_dra_details(fsid) as a step: the describe call, then the loop over its
\* answer; an exception of either ends the invocation
Resolve(fsid, next) ==
    /\ calls' = Append(calls, DescribeCall(fsid))
    /\ \/ \E m \in ServiceMessages :
            /\ response' = [kind |-> "error", err |-> ClientError(m)]
            /\ dra_details' = [ok |-> FALSE, err |-> ClientError(m)]
            /\ outcome' = Raised(ClientError(m))
            /\ pc' = "done"
       \/ \E a \in AssociationLists :
            LET d == Resolver(a) IN
            /\ response' = [kind |-> "associations", Associations |-> a]
            /\ dra_details' = d
            /\ IF d.ok
               THEN pc' = next /\ outcome' = outcome
               ELSE pc' = "done" /\ outcome' = Raised(d.err)
    /\ UNCHANGED <<create_answer, earlier>>

\* create_data_repository_task called again after a ClientError
Submit_retry(params, result) ==
    /\ task_params' = params
    /\ pc' = "done"
    /\ \/ /\ calls' = Append(calls, CreateCall(params))
          /\ create_answer' = [kind |-> "task", value |-> TaskResponse]
          /\ outcome' = Returned(result)
       \/ \E m \in ServiceMessages :
            /\ calls' = Append(Append(calls, CreateCall(params)), CreateCall(params))
            /\ create_answer' = [kind |-> "error", err |-> ClientError(m)]
            /\ outcome' = Raised(ClientError(m))
    /\ UNCHANGED earlier

\* fsx.create_data_repository_task(**params): the answer is returned, a
\* ClientError is logged and raised again
Submit(params, result) ==
    /\ task_params' = params
    /\ calls' = Append(calls, CreateCall(params))
    /\ pc' = "done"
    /\ \/ /\ create_answer' = [kind |-> "task", value |-> TaskResponse]
          /\ outcome' = Returned(result)
       \/ \E m \in ServiceMessages :
            /\ create_answer' = [kind |-> "error", err |-> ClientError(m)]
            /\ outcome' = Raised(ClientError(m))
    /\ UNCHANGED earlier

\* an exception raised before the next step
Fail(e) ==
    /\ outcome' = Raised(e)
    /\ pc' = "done"

----------------------------------------------------------------------------
(* py: src/src/py/fsx-drt.py *)

PyRequired == <<"file_system_id", "paths", "completion_report_path">>

\* the event dicts a programmatic caller may pass
Events ==
    { a @@ b @@ c @@ d :
        a \in Opt("file_system_id", FsIds),
        b \in Opt("paths", PathLists),
        c \in Opt("completion_report_path", Suffixes),
        d \in Opt("report_scope", ReportScopes) }

\* the event cli_handler builds
CliEvent(paths) ==
    [file_system_id |-> args.filesystem_id,
     paths |-> paths,
     completion_report_path |-> args.completion_report_path,
     report_scope |-> FAILED_FILES_ONLY]

\* task_params of export with the event's report_scope honoured
PyExportParams_scope(ev, dra) ==
    [FileSystemId |-> ev.file_system_id,
     Type |-> EXPORT_TO_REPOSITORY,
     Paths |-> ev.paths,
     Report |-> [Enabled |-> TRUE,
                 Path |-> RStrip(dra.s3_path, "/") \o ev.completion_report_path,
                 Format |-> "REPORT_CSV_20191124",
                 Scope |-> IF "report_scope" \in DOMAIN ev THEN ev.report_scope
                           ELSE FAILED_FILES_ONLY]]

\* task_params of export
PyExportParams(ev, dra) ==
    [FileSystemId |-> ev.file_system_id,
     Type |-> EXPORT_TO_REPOSITORY,
     Paths |-> ev.paths,
     Report |-> [Enabled |-> TRUE,
                 Path |-> RStrip(dra.s3_path, "/") \o ev.completion_report_path,
                 Format |-> "REPORT_CSV_20191124",
                 Scope |-> FAILED_FILES_ONLY]]

\* task_params of import_data
PyImportParams(ev) ==
    [FileSystemId |-> ev.file_system_id,
     Type |-> IMPORT_METADATA_FROM_REPOSITORY,
     Paths |-> <<ev.paths[1]>>,
     Report |-> [Enabled |-> TRUE,
                 Path |-> SnowyTrail \o ev.completion_report_path,
                 Format |-> "REPORT_CSV_20191124",
                 Scope |-> FAILED_FILES_ONLY]]

\* the command line, after argparse
InvokePyCli ==
    /\ pc = "start"
    /\ \E a \in Actions, f \in FsIds, p \in PathArgs, c \in Suffixes, r \in ReportScopes :
         args' = [action |-> a, filesystem_id |-> f, paths |-> p,
                  completion_report_path |-> c, report_scope |-> r]
    /\ entry' = "py_cli"
    /\ pc' = "cli_validate"
    /\ UNCHANGED <<op, event, environ, outcome>>
    /\ UNCHANGED noService

\* cli_handler up to the call of export / import_data, when no resolution is needed
PyCliValidate ==
    /\ pc = "cli_validate"
    /\ IF ~StartsWith(args.filesystem_id, FsPrefix)
       THEN /\ Fail(ValueError("Invalid filesystem ID format. Must start with 'fs-'", <<>>))
            /\ UNCHANGED <<op, event>>
       ELSE IF args.action = "import" /\ ~StartsWith(args.paths, S3Scheme)
       THEN /\ pc' = "cli_resolve"
            /\ UNCHANGED <<op, event, outcome>>
       ELSE /\ event' = CliEvent(<<args.paths>>)
            /\ op' = args.action
            /\ pc' = "check"
            /\ UNCHANGED outcome
    /\ UNCHANGED <<entry, args, environ>>
    /\ UNCHANGED noService

\* cli_handler, import without an s3:// path: the path comes from the association
PyCliResolve ==
    /\ pc = "cli_resolve"
    /\ Resolve(args.filesystem_id, "check")
    /\ IF dra_details'.ok
       THEN /\ event' = CliEvent(<<RStrip(dra_details'.s3_path, "/") \o <<"/">>>>)
            /\ op' = args.action
       ELSE UNCHANGED <<op, event>>
    /\ UNCHANGED <<entry, args, environ, task_params>>

\* export(event, None) / import_data(event, None) called by an embedding program
InvokePy ==
    /\ pc = "start"
    /\ \E o \in Actions, e \in Events :
         /\ op' = o
         /\ event' = e
         /\ entry' = IF o = "export" THEN "py_export" ELSE "py_import"
    /\ pc' = "check"
    /\ UNCHANGED <<args, environ, outcome>>
    /\ UNCHANGED noService

\* export: the required parameters
PyExportCheck ==
    /\ pc = "check" /\ op = "export" /\ entry \in {"py_cli", "py_export"}
    /\ LET missing == NotIn(PyRequired, event) IN
       IF missing # <<>>
       THEN Fail(ValueError("Missing required parameters", missing))
       ELSE pc' = "resolve" /\ UNCHANGED outcome
    /\ UNCHANGED <<entry, op, args, event, environ>>
    /\ UNCHANGED noService

\* export: get_dra_details(file_system_id)
PyExportResolve ==
    /\ pc = "resolve" /\ op = "export" /\ entry \in {"py_cli", "py_export"}
    /\ Resolve(event.file_system_id, "submit")
    /\ UNCHANGED <<entry, op, args, event, environ, task_params>>

\* export: build task_params and create the task
PyExportSubmit ==
    /\ pc = "submit" /\ op = "export" /\ entry \in {"py_cli", "py_export"}
    /\ Submit(PyExportParams(event, dra_details), TaskResponse)
    /\ UNCHANGED <<entry, op, args, event, environ, dra_details, response>>

\* import_data: the required parameters and event['paths'][0]
PyImportCheck ==
    /\ pc = "check" /\ op = "import" /\ entry \in {"py_cli", "py_import"}
    /\ LET missing == NotIn(PyRequired, event) IN
       IF missing # <<>>
       THEN Fail(ValueError("Missing required parameters", missing))
       ELSE IF event.paths = <<>>
       THEN Fail(IndexError)
       ELSE pc' = "submit" /\ UNCHANGED outcome
    /\ UNCHANGED <<entry, op, args, event, environ>>
    /\ UNCHANGED noService

\* import_data: build task_params and create the task
PyImportSubmit ==
    /\ pc = "submit" /\ op = "import" /\ entry \in {"py_cli", "py_import"}
    /\ Submit(PyImportParams(event), TaskResponse)
    /\ UNCHANGED <<entry, op, args, event, environ, dra_details, response>>

----------------------------------------------------------------------------
(* lambda: src/src/lambda/lambda.py *)

LambdaRequired == <<"FILE_SYSTEM_ID", "TASK_TYPE", "COMPLETION_REPORT_PATH", "FSX_PATHS">>

\* the environments the function may be deployed with
LambdaEnvs ==
    { a @@ b @@ c @@ d :
        a \in Opt("FILE_SYSTEM_ID", FsIds),
        b \in Opt("TASK_TYPE", TaskTypes),
        c \in Opt("COMPLETION_REPORT_PATH", Suffixes),
        d \in Opt("FSX_PATHS", PathArgs) }

\* datetime.isoformat(): the text of a datetime
isoformat(dt) == <<"isoformat", dt.datetime>>

\* serialize_datetime on a task response: datetimes become ISO text
serialize_datetime(obj) ==
    [k \in DOMAIN obj |->
        IF k = "CreationTime" THEN isoformat(obj[k]) ELSE obj[k]]

\* task_params of create_data_repository_task
LambdaParams(task_type, file_system_id, paths, completion_report_path, dra) ==
    LET s3_base_path == RStrip(dra.s3_path, "/")
        fsx_base_path == RStrip(dra.fsx_path, "/")
        task_paths == IF task_type = EXPORT_TO_REPOSITORY
                      THEN <<fsx_base_path>>
                      ELSE <<dra.s3_path>>
    IN [FileSystemId |-> file_system_id,
        Type |-> task_type,
        Paths |-> task_paths,
        Report |-> [Enabled |-> TRUE,
                    Path |-> s3_base_path \o completion_report_path,
                    Format |-> "REPORT_CSV_20191124",
                    Scope |-> FAILED_FILES_ONLY]]

\* the scheduler invokes handler(event, context); the event is only logged
InvokeLambda ==
    /\ pc = "start"
    /\ environ' \in LambdaEnvs
    /\ event' \in Opt("report_scope", ReportScopes)
    /\ entry' = "lambda_handler"
    /\ op' = "create"
    /\ pc' = "env"
    /\ UNCHANGED <<args, outcome>>
    /\ UNCHANGED noService

\* handler: validate_env_vars
LambdaHandlerEnv ==
    /\ pc = "env" /\ entry = "lambda_handler"
    /\ LET missing_vars == Falsy(LambdaRequired, environ) IN
       IF missing_vars # <<>>
       THEN Fail(ValueError("Missing environment variables", missing_vars))
       ELSE pc' = "resolve" /\ UNCHANGED outcome
    /\ UNCHANGED <<entry, op, args, event, environ>>
    /\ UNCHANGED noService

\* create_data_repository_task: get_dra_details(file_system_id)
LambdaResolve ==
    /\ pc = "resolve" /\ entry = "lambda_handler"
    /\ Resolve(environ.FILE_SYSTEM_ID, "submit")
    /\ UNCHANGED <<entry, op, args, event, environ, task_params>>

\* create_data_repository_task: build task_params and create the task
LambdaSubmit ==
    /\ pc = "submit" /\ entry = "lambda_handler"
    /\ Submit(LambdaParams(environ.TASK_TYPE, environ.FILE_SYSTEM_ID,
                           <<environ.FSX_PATHS>>, environ.COMPLETION_REPORT_PATH,
                           dra_details),
              serialize_datetime(TaskResponse))
    /\ UNCHANGED <<entry, op, args, event, environ, dra_details, response>>

----------------------------------------------------------------------------
(* legacy: src/src/fsx-drt.py *)

LegacyRequired == <<"filesystemid", "type", "completionreportpath", "paths">>

\* the process environments export / import_data may be called in
LegacyEnvs ==
    { a @@ b @@ c @@ d :
        a \in Opt("filesystemid", FsIds),
        b \in Opt("type", {Upper("export")}),
        c \in Opt("completionreportpath", Suffixes),
        d \in Opt("paths", PathArgs) }

\* the arguments of create_data_repository_task in export / import_data
LegacyParams(kind, env, report_path) ==
    [FileSystemId |-> env.filesystemid,
     Type |-> IF kind = "export" THEN EXPORT_TO_REPOSITORY
              ELSE IMPORT_METADATA_FROM_REPOSITORY,
     Paths |-> ShlexSplit(env.paths),
     Report |-> [Enabled |-> TRUE,
                 Path |-> report_path,
                 Format |-> "REPORT_CSV_20191124",
                 Scope |-> FAILED_FILES_ONLY]]

\* the command line, after argparse
InvokeLegacyCli ==
    /\ pc = "start"
    /\ \E a \in Actions, f \in FsIds, p \in PathArgs, c \in Suffixes :
         args' = [action |-> a, filesystem_id |-> f, paths |-> p,
                  completion_report_path |-> c]
    /\ entry' = "legacy_cli"
    /\ pc' = "cli_setenv"
    /\ UNCHANGED <<op, event, environ, outcome>>
    /\ UNCHANGED noService

\* cli_handler: the arguments go into os.environ, then export / import_data runs
LegacyCliSetEnv ==
    /\ pc = "cli_setenv"
    /\ environ' = [filesystemid |-> args.filesystem_id,
                   type |-> Upper(args.action),
                   completionreportpath |-> args.completion_report_path,
                   paths |-> args.paths]
    /\ op' = args.action
    /\ pc' = "env"
    /\ UNCHANGED <<entry, args, event, outcome>>
    /\ UNCHANGED noService

\* export({}, None) / import_data({}, None) called by an embedding program
InvokeLegacy ==
    /\ pc = "start"
    /\ \E o \in Actions :
         /\ op' = o
         /\ entry' = IF o = "export" THEN "legacy_export" ELSE "legacy_import"
    /\ environ' \in LegacyEnvs
    /\ event' \in Opt("report_scope", ReportScopes)
    /\ pc' = "env"
    /\ UNCHANGED <<args, outcome>>
    /\ UNCHANGED noService

\* export / import_data: validate_env_vars
LegacyEnv ==
    /\ pc = "env" /\ IsLegacy
    /\ LET missing_vars == Falsy(LegacyRequired, environ) IN
       IF missing_vars # <<>>
       THEN Fail(ValueError("Missing environment variables", missing_vars))
       ELSE pc' = "resolve" /\ UNCHANGED outcome
    /\ UNCHANGED <<entry, op, args, event, environ>>
    /\ UNCHANGED noService

\* export / import_data: get_completion_report_path
LegacyResolve ==
    /\ pc = "resolve" /\ IsLegacy
    /\ Resolve(environ.filesystemid, "submit")
    /\ UNCHANGED <<entry, op, args, event, environ, task_params>>

\* export / import_data: create the task
LegacySubmit ==
    /\ pc = "submit" /\ IsLegacy
    /\ Submit(LegacyParams(op, environ, dra_details.full_path), TaskResponse)
    /\ UNCHANGED <<entry, op, args, event, environ, dra_details, response>>

----------------------------------------------------------------------------

Next ==
    \/ InvokePyCli
    \/ PyCliValidate
    \/ PyCliResolve
    \/ InvokePy
    \/ PyExportCheck
    \/ PyExportResolve
    \/ PyExportSubmit
    \/ PyImportCheck
    \/ PyImportSubmit
    \/ InvokeLambda
    \/ LambdaHandlerEnv
    \/ LambdaResolve
    \/ LambdaSubmit
    \/ InvokeLegacyCli
    \/ LegacyCliSetEnv
    \/ InvokeLegacy
    \/ LegacyEnv
    \/ LegacyResolve
    \/ LegacySubmit

Spec == Init /\ [][Next]_vars

----------------------------------------------------------------------------
(* The same invocation again: the schedule fires once more, the command is
   run once more.  Nothing of the invocation before is kept by the program. *)

\* the create calls of this invocation
CurCreates == Cardinality({i \in DOMAIN calls : calls[i].op = "create"})

\* where an invocation by this entry point begins
FirstStep ==
    IF entry = "py_cli" THEN "cli_validate"
    ELSE IF entry = "legacy_cli" THEN "cli_setenv"
    ELSE IF entry \in {"py_export", "py_import"} THEN "check"
    ELSE "env"

Repeat ==
    /\ pc = "done"
    /\ earlier.invocations + 1 < MaxInvocations
    /\ earlier' = [invocations |-> earlier.invocations + 1,
                   created |-> earlier.created + CurCreates,
                   succeeded |-> earlier.succeeded
                                   + IF outcome.kind = "returned" THEN 1 ELSE 0]
    /\ pc' = FirstStep
    /\ op' = IF entry \in {"py_cli", "legacy_cli"} THEN "none" ELSE op
    /\ event' = IF entry = "py_cli" THEN EmptyDict ELSE event
    /\ environ' = IF entry = "legacy_cli" THEN EmptyDict ELSE environ
    /\ dra_details' = None
    /\ response' = None
    /\ task_params' = None
    /\ calls' = <<>>
    /\ outcome' = None
    /\ create_answer' = None
    /\ UNCHANGED <<entry, args>>

NextRepeat == Next \/ Repeat

SpecRepeat == Init /\ [][NextRepeat]_vars

----------------------------------------------------------------------------
(* What the caller gave, whatever the entry point *)

Fields == {"fsid", "paths", "suffix"}

\* the dict d read under the field names: key[f] is the name d uses for field f
Under(d, key) == [f \in {g \in Fields : key[g] \in DOMAIN d} |-> d[key[f]]]

\* the caller's inputs: a function on the fields it gave
Given ==
    IF entry \in {"py_cli", "legacy_cli"}
    THEN [fsid |-> args.filesystem_id, paths |-> args.paths,
          suffix |-> args.completion_report_path]
    ELSE IF entry \in {"py_export", "py_import"}
    THEN Under(event, [fsid |-> "file_system_id", paths |-> "paths",
                       suffix |-> "completion_report_path"])
    ELSE IF entry = "lambda_handler"
    THEN Under(environ, [fsid |-> "FILE_SYSTEM_ID", paths |-> "FSX_PATHS",
                         suffix |-> "COMPLETION_REPORT_PATH"])
    ELSE IF entry \in {"legacy_export", "legacy_import"}
    THEN Under(environ, [fsid |-> "filesystemid", paths |-> "paths",
                         suffix |-> "completionreportpath"])
    ELSE EmptyDict

\* the names the three variants give a field
FieldNames ==
    [fsid |-> {"file_system_id", "FILE_SYSTEM_ID", "filesystemid"},
     paths |-> {"paths", "FSX_PATHS"},
     suffix |-> {"completion_report_path", "COMPLETION_REPORT_PATH",
                 "completionreportpath"}]

\* the fields the caller left out or left empty
MissingFields == {f \in Fields : f \notin DOMAIN Given \/ Given[f] = <<>>}

\* the one path the caller named: the first of an event's list, else the text itself
CallerPath ==
    IF "paths" \notin DOMAIN Given \/ Given.paths = <<>> THEN <<>>
    ELSE IF entry \in {"py_export", "py_import"} THEN Given.paths[1]
    ELSE Given.paths

\* the caller's paths as a list
CallerPathList ==
    IF "paths" \notin DOMAIN Given THEN <<>>
    ELSE IF entry \in {"py_export", "py_import"} THEN Given.paths
    ELSE IF entry \in {"py_cli", "lambda_handler"} THEN <<Given.paths>>
    ELSE ShlexSplit(Given.paths)

\* the answer of the service holds an AVAILABLE association
Answered == response # None /\ response.kind = "associations"
AvailableAt == IF Answered
               THEN {i \in DOMAIN response.Associations :
                        response.Associations[i].Lifecycle = "AVAILABLE"}
               ELSE {}

\* the first AVAILABLE association, in the service's order
FirstAvailable ==
    response.Associations[CHOOSE i \in AvailableAt : \A j \in AvailableAt : i <= j]

Submitted == task_params # None
IsImport == Submitted /\ task_params.Type = IMPORT_METADATA_FROM_REPOSITORY
IsExport == Submitted /\ task_params.Type = EXPORT_TO_REPOSITORY

Failed == outcome.kind \in {"raised", "exit"}

Range(q) == {q[i] : i \in DOMAIN q}

\* the caller gave a filesystem id and a report suffix of the documented shape
GoodFsId == "fsid" \in DOMAIN Given /\ StartsWith(Given.fsid, FsPrefix)
GoodSuffix == "suffix" \in DOMAIN Given /\ StartsWith(Given.suffix, <<"/">>)

----------------------------------------------------------------------------
(* Claims *)

\* C1: a filesystem id that does not start with 'fs-' makes the invocation fail
\* with a validation error before any service call, on every entry point
\* (stated for invocations whose other fields are in order).
C1_BadFsIdFailsBeforeAnyCall ==
    (MissingFields = {} /\ GoodSuffix /\ ~StartsWith(Given.fsid, FsPrefix)) =>
        /\ calls = <<>>
        /\ pc = "done" => Failed /\ outcome.err.type = "ValueError"

\* C2: the report path of an import is the resolved storage path, trailing
\* separators stripped, followed by the suffix, as it is for an export.
C2_ImportReportPathFromAssociation ==
    (IsImport /\ GoodFsId /\ GoodSuffix) =>
        /\ AvailableAt # {}
        /\ task_params.Report.Path =
              RStrip(FirstAvailable.DataRepositoryPath, "/") \o Given.suffix

\* C3: an import whose caller path is absent or lacks 's3://' submits exactly
\* the resolved association's storage path, as the service returned it.
C3_ImportFallsBackToExactStoragePath ==
    (IsImport /\ GoodFsId /\ GoodSuffix /\ ~StartsWith(CallerPath, S3Scheme)) =>
        /\ AvailableAt # {}
        /\ task_params.Paths = <<FirstAvailable.DataRepositoryPath>>

\* C4: an import whose caller path begins with 's3://' submits that path verbatim.
C4_ImportHonoursCallerStoragePath ==
    (IsImport /\ GoodFsId /\ GoodSuffix /\ StartsWith(CallerPath, S3Scheme)) =>
        task_params.Paths = <<CallerPath>>

\* C5: an export submits the caller's path list when one is given, and otherwise
\* the resolved association's filesystem path alone (a list given empty is left
\* out: it is neither case).
C5_ExportPaths ==
    (IsExport /\ GoodFsId /\ GoodSuffix /\ "paths" \notin MissingFields) =>
        task_params.Paths =
            IF CallerPathList # <<>> THEN CallerPathList
            ELSE <<FirstAvailable.FileSystemPath>>

\* the operation functions and the handler, called without the command line
Programmatic ==
    entry \in {"py_export", "py_import", "lambda_handler",
               "legacy_export", "legacy_import"}

\* C6: when a required field is empty or absent the invocation fails with a
\* missing-parameter error naming every such field, and no service call is made.
C6_MissingFieldsAllNamed ==
    (Programmatic /\ MissingFields # {}) =>
        /\ calls = <<>>
        /\ pc = "done" =>
              /\ Failed
              /\ outcome.err.msg \in {"Missing required parameters",
                                      "Missing environment variables"}
              /\ \A f \in MissingFields :
                    \E n \in Range(outcome.err.names) : n \in FieldNames[f]

\* the resolver ran: get_dra_details in py and lambda
ResolverRan == Answered /\ entry \in {"py_cli", "py_export", "py_import", "lambda_handler"}

\* C7: when the service's answer holds an AVAILABLE association, the resolver
\* returns the storage path and the filesystem path of the first one in the
\* service's order, unmodified, whatever precedes or follows it.
C7_ResolverReturnsFirstAvailable ==
    (ResolverRan /\ AvailableAt # {}) =>
        /\ dra_details.ok
        /\ dra_details.s3_path = FirstAvailable.DataRepositoryPath
        /\ dra_details.fsx_path = FirstAvailable.FileSystemPath

\* C7 happens: an AVAILABLE association behind one that is not, with other paths
C7_Witness ==
    /\ ResolverRan
    /\ Len(response.Associations) = 2
    /\ AvailableAt = {2}
    /\ response.Associations[1].DataRepositoryPath
         # response.Associations[2].DataRepositoryPath
    /\ dra_details.ok

NotFound == ValueError("No Data Repository Associations found", <<>>)
NotAvailable == ValueError("No AVAILABLE Data Repository Associations found", <<>>)

\* the resolution ended in the error e
ResolutionRaised(e) == ~dra_details.ok /\ dra_details.err = e

\* C8: the resolver raises the not-found error exactly when the service returns
\* no association, and the not-available error, which differs from it, exactly
\* when it returns some and none is AVAILABLE; the caller is handed that error.
C8_NotFoundAndNotAvailable ==
    response # None =>
        /\ ResolutionRaised(NotFound)
             <=> (Answered /\ response.Associations = <<>>)
        /\ ResolutionRaised(NotAvailable)
             <=> (Answered /\ response.Associations # <<>> /\ AvailableAt = {})
        /\ NotFound # NotAvailable
        /\ (~dra_details.ok /\ pc = "done") => Failed /\ outcome.err = dra_details.err

\* C8 happens: associations came back, none of them AVAILABLE
C8_Witness ==
    /\ Answered
    /\ Len(response.Associations) = 2
    /\ AvailableAt = {}
    /\ pc = "done"
    /\ outcome.err = NotAvailable

\* C9: the create call is made only after the resolution of the same invocation
\* succeeded, and an invocation makes at most two calls, describe then create
\* (stated for invocations whose fields are all in order).
C9_CreateOnlyAfterResolution ==
    (MissingFields = {} /\ GoodFsId /\ GoodSuffix) =>
        /\ Len(calls) <= 2
        /\ \A i \in DOMAIN calls :
              calls[i].op = "create" =>
                  /\ i = 2
                  /\ calls[1].op = "describe"
                  /\ AvailableAt # {}

\* the scope the caller asked for, if any
RequestedScopes ==
    (IF "report_scope" \in DOMAIN args THEN {args.report_scope} ELSE {})
    \cup (IF entry # "py_cli" /\ "report_scope" \in DOMAIN event
          THEN {event.report_scope} ELSE {})

\* what makes an invocation fail, none of it the scope: a missing field, a
\* malformed filesystem id, an empty paths list, a failed resolution, a
\* ClientError of the service
FailureCause(e) ==
    \/ /\ e.msg \in {"Missing required parameters", "Missing environment variables"}
       /\ e.names # <<>>
       /\ \A n \in Range(e.names) : n \notin DOMAIN event \cup DOMAIN environ
                                       \/ (event @@ environ)[n] = <<>>
    \/ /\ e.msg = "Invalid filesystem ID format. Must start with 'fs-'"
       /\ ~StartsWith(args.filesystem_id, FsPrefix)
    \/ e = IndexError /\ event.paths = <<>>
    \/ e \in {NotFound, NotAvailable} /\ Answered /\ AvailableAt = {}
    \/ e.type = "ClientError" /\ calls # <<>>

DescribeRaised == response # None /\ response.kind = "error"
CreateRaised == create_answer # None /\ create_answer.kind = "error"

\* C11: an error the service raises in the describe call or in the create call
\* ends the operation with that error raised, its message unmodified; the
\* operation does not return normally after it, nor go on to another call.
C11_ServiceErrorsReachCaller ==
    /\ DescribeRaised =>
          /\ pc = "done" /\ Failed
          /\ outcome.err = response.err
          /\ outcome.err.msg \in ServiceMessages
          /\ create_answer = None
    /\ CreateRaised =>
          /\ pc = "done" /\ Failed
          /\ outcome.err = create_answer.err
          /\ outcome.err.msg \in ServiceMessages

\* C11 happens: the create call of an operation function was refused
C11_Witness ==
    /\ CreateRaised
    /\ entry \in {"py_export", "lambda_handler"}
    /\ outcome.kind = "raised"
    /\ outcome.err.msg = "AccessDenied"

\* the create calls and the successful invocations so far, this one included
TotalCreates == earlier.created + CurCreates
TotalSucceeded == earlier.succeeded + IF outcome.kind = "returned" THEN 1 ELSE 0
Invocations == earlier.invocations + IF entry = "none" THEN 0 ELSE 1

\* C12: an invocation issues at most one create call, and exactly one when it
\* succeeds; a refused create call is not tried again; N successful invocations
\* with the same arguments issue N create calls.
C12_OneCreatePerInvocation ==
    /\ CurCreates <= 1
    /\ outcome.kind = "returned" => CurCreates = 1
    /\ CreateRaised => pc = "done" /\ CurCreates = 1
    /\ TotalSucceeded <= TotalCreates
    /\ TotalCreates <= Invocations
    /\ TotalSucceeded = Invocations => TotalCreates = Invocations

\* C12 happens: the second of two successful invocations with the same arguments
C12_Witness ==
    /\ earlier.invocations = 1
    /\ earlier.succeeded = 1
    /\ outcome.kind = "returned"
    /\ TotalCreates = 2

\* C13: a report suffix that does not begin with '/' makes the invocation fail
\* with a validation error before any service call, so that no request is
\* submitted whose report path runs the base and the suffix together
\* (stated for invocations whose other fields are in order).
C13_BadSuffixFailsBeforeAnyCall ==
    (MissingFields = {} /\ GoodFsId /\ ~StartsWith(Given.suffix, <<"/">>)) =>
        /\ calls = <<>>
        /\ pc = "done" => Failed /\ outcome.err.type = "ValueError"

Kinds == {IMPORT_METADATA_FROM_REPOSITORY, EXPORT_TO_REPOSITORY}

\* the task type the deployment configures, where there is one
ConfiguredType ==
    IF entry = "lambda_handler" /\ "TASK_TYPE" \in DOMAIN environ
    THEN {environ.TASK_TYPE} ELSE {}

\* the paths of the request are of the side its kind prescribes: filesystem
\* paths for an export, one storage path for an import
PathsFitKind ==
    IF task_params.Type = EXPORT_TO_REPOSITORY
    THEN \A i \in DOMAIN task_params.Paths :
            ~StartsWith(task_params.Paths[i], S3Scheme)
    ELSE /\ Len(task_params.Paths) = 1
         /\ StartsWith(task_params.Paths[1], S3Scheme)

\* C14: every request submitted is of kind IMPORT_METADATA_FROM_REPOSITORY or
\* EXPORT_TO_REPOSITORY and carries the paths of that kind, also when the
\* configured task type is neither (stated for that case, with the other
\* settings in order).
C14_RequestKindIsImportOrExport ==
    (/\ Submitted /\ GoodFsId /\ GoodSuffix
     /\ ConfiguredType # {} /\ ConfiguredType \cap Kinds = {}) =>
        /\ task_params.Type \in Kinds
        /\ PathsFitKind

====
